---------------------------- MODULE Spec2Model ----------------------------
(***************************************************************************)
(* Clause QA tool (src/main.py): the clause-numbering continuity checker.  *)
(*                                                                         *)
(* Text is a sequence of one-character strings ("6.1" is <<"6",".","1">>), *)
(* so that stripping, splitting and integer parsing are computed.  A JSON  *)
(* field value is a record [tag, v]: tag "absent" (key missing), "none"    *)
(* (null), "str" (v is the text) or "int" (v is the decimal numeral of the *)
(* number, which is also what str() returns for it).  Python's optional    *)
(* reason (None or a string) is <<>> or <<s>>.  Indices in issue records   *)
(* are Python's 0-based indices.                                           *)
(***************************************************************************)
EXTENDS Integers, Sequences, FiniteSets, TLC

VARIABLES
    pc,                  \* position of the running call
    clauses,             \* validate_clauses: the argument
    i,                   \* validate_clauses: 0-based index of the next clause
    prev_clause_number,  \* validate_clauses: local
    prev_parts,          \* validate_clauses: local
    prev_index,          \* validate_clauses: local
    issues,              \* validate_clauses: the report being built
    t_prev,              \* is_valid_transition: argument prev_parts
    t_curr,              \* is_valid_transition: argument curr_parts
    t_result,            \* is_valid_transition: returned tuple
    display,             \* analyze: display_clauses, the projection
    p_input,             \* parse_clause_parts: argument clause_number
    p_normalized,        \* parse_clause_parts: local normalized
    p_result,            \* parse_clause_parts: returned list
    calls                \* concurrent /analyze requests: the frame of each

vars == <<pc, clauses, i, prev_clause_number, prev_parts, prev_index, issues,
          t_prev, t_curr, t_result, display, p_input, p_normalized, p_result,
          calls>>

\* the variables of the other calls, which a call leaves alone
transitionVars == <<t_prev, t_curr, t_result>>
parseVars == <<p_input, p_normalized, p_result>>

(***************************************************************************)
(* Bounds of the model.                                                    *)
(***************************************************************************)
MaxSeg == 3          \* segments of a parsed number range over 0..MaxSeg
MaxDepth == 3        \* parsed numbers have at most MaxDepth segments
MaxClauses == 3      \* length of the clause lists that vary the number
MaxFieldClauses == 2 \* length of the clause lists that vary every field
MaxLen == 4          \* length of the texts given to parse_clause_parts
MaxConcClauses == 2  \* length of the clause lists of concurrent requests
MaxDots == 2         \* number of dots appended to a clause number

(***************************************************************************)
(* Python text primitives.                                                 *)
(***************************************************************************)
Digits == <<"0", "1", "2", "3", "4", "5", "6", "7", "8", "9">>

IsDigit(c) == \E d \in 1..10 : Digits[d] = c

DigitVal(c) == (CHOOSE d \in 1..10 : Digits[d] = c) - 1

IsSpace(c) == c = " "

\* the characters of a sequence of characters, as one string
RECURSIVE Str(_)
Str(cs) == IF cs = <<>> THEN "" ELSE Head(cs) \o Str(Tail(cs))

\* str(n) for an integer n, as a string
RECURSIVE IntStr(_)
IntStr(n) ==
    IF n < 0 THEN "-" \o IntStr(-n)
    ELSE IF n < 10 THEN Digits[n + 1]
    ELSE IntStr(n \div 10) \o Digits[(n % 10) + 1]

\* '.'.join(map(str, parts))
RECURSIVE JoinDots(_)
JoinDots(parts) ==
    IF parts = <<>> THEN ""
    ELSE IF Len(parts) = 1 THEN IntStr(parts[1])
    ELSE IntStr(parts[1]) \o "." \o JoinDots(Tail(parts))

Front(s) == SubSeq(s, 1, Len(s) - 1)

\* rstrip that removes one trailing dot only
RStripOneDot(s) == IF s # <<>> /\ s[Len(s)] = "." THEN Front(s) ELSE s

\* strip('.'): dots removed at both ends
RECURSIVE StripDots(_)
StripDots(s) ==
    IF s # <<>> /\ s[Len(s)] = "." THEN StripDots(Front(s))
    ELSE IF s # <<>> /\ Head(s) = "." THEN StripDots(Tail(s))
    ELSE s

\* s.rstrip('.')
RECURSIVE RStripDots(_)
RStripDots(s) ==
    IF s # <<>> /\ s[Len(s)] = "." THEN RStripDots(Front(s)) ELSE s

RECURSIVE LStrip(_)
LStrip(s) == IF s # <<>> /\ IsSpace(Head(s)) THEN LStrip(Tail(s)) ELSE s

RECURSIVE RStrip(_)
RStrip(s) == IF s # <<>> /\ IsSpace(s[Len(s)]) THEN RStrip(Front(s)) ELSE s

\* s.strip()
Strip(s) == RStrip(LStrip(s))

\* s.split('.'): the segments between the dots, empty ones included
RECURSIVE SplitDots(_, _)
SplitDots(s, seg) ==
    IF s = <<>> THEN <<seg>>
    ELSE IF Head(s) = "." THEN <<seg>> \o SplitDots(Tail(s), <<>>)
    ELSE SplitDots(Tail(s), Append(seg, Head(s)))

\* digit (["_"] digit)*: the digit part of a Python numeric literal
RECURSIVE IsDigitPart(_)
IsDigitPart(s) ==
    /\ s # <<>>
    /\ IsDigit(Head(s))
    /\ \/ Len(s) = 1
       \/ /\ s[2] = "_"
          /\ IsDigitPart(SubSeq(s, 3, Len(s)))
       \/ /\ s[2] # "_"
          /\ IsDigitPart(Tail(s))

\* the value of a digit part, underscores skipped
RECURSIVE DigitPartVal(_, _)
DigitPartVal(s, acc) ==
    IF s = <<>> THEN acc
    ELSE IF Head(s) = "_" THEN DigitPartVal(Tail(s), acc)
    ELSE DigitPartVal(Tail(s), 10 * acc + DigitVal(Head(s)))

IsSign(c) == c \in {"+", "-"}

\* int(p): [ok |-> FALSE] is ValueError
PyInt(p) ==
    LET s == Strip(p)
        signed == s # <<>> /\ IsSign(Head(s))
        body == IF signed THEN Tail(s) ELSE s
    IN  IF IsDigitPart(body)
        THEN [ok |-> TRUE,
              val |-> IF signed /\ Head(s) = "-"
                      THEN 0 - DigitPartVal(body, 0)
                      ELSE DigitPartVal(body, 0)]
        ELSE [ok |-> FALSE, val |-> 0]

\* index of the first character of s that is in C, 0 when there is none
FirstIndex(s, C) ==
    IF \E k \in 1..Len(s) : s[k] \in C
    THEN CHOOSE k \in 1..Len(s) : s[k] \in C /\ \A j \in 1..(k - 1) : s[j] \notin C
    ELSE 0

Uppers == <<"A", "F", "I", "N", "T", "Y">>
Lowers == <<"a", "f", "i", "n", "t", "y">>

\* c.lower(), for the letters of "infinity" and "nan"
ToLower(c) ==
    IF \E k \in 1..Len(Uppers) : Uppers[k] = c
    THEN Lowers[CHOOSE k \in 1..Len(Uppers) : Uppers[k] = c]
    ELSE c

Lower(s) == [k \in 1..Len(s) |-> ToLower(s[k])]

\* digits, with an optional "." that has digits on at least one side
IsMantissa(m) ==
    LET d == FirstIndex(m, {"."})
        ip == SubSeq(m, 1, d - 1)
        fp == SubSeq(m, d + 1, Len(m))
    IN  IF d = 0 THEN IsDigitPart(m)
        ELSE /\ ip = <<>> \/ IsDigitPart(ip)
             /\ fp = <<>> \/ IsDigitPart(fp)
             /\ ip # <<>> \/ fp # <<>>

IsExponent(e) ==
    IsDigitPart(IF e # <<>> /\ IsSign(Head(e)) THEN Tail(e) ELSE e)

\* float(p) does not raise ValueError
PyFloatOk(p) ==
    LET s == Strip(p)
        body == IF s # <<>> /\ IsSign(Head(s)) THEN Tail(s) ELSE s
        e == FirstIndex(body, {"e", "E"})
    IN  \/ Lower(body) \in {<<"i", "n", "f">>, <<"n", "a", "n">>,
                            <<"i", "n", "f", "i", "n", "i", "t", "y">>}
        \/ /\ e = 0
           /\ IsMantissa(body)
        \/ /\ e > 0
           /\ IsMantissa(SubSeq(body, 1, e - 1))
           /\ IsExponent(SubSeq(body, e + 1, Len(body)))

(***************************************************************************)
(* Python values of a JSON field.                                          *)
(***************************************************************************)
Absent == [tag |-> "absent", v |-> <<>>]
PyNone == [tag |-> "none", v |-> <<>>]
Text(s) == [tag |-> "str", v |-> s]
Num(s) == [tag |-> "int", v |-> s]

\* clause.get(key, ""): a missing key reads as the empty text
Get(f) == IF f.tag = "absent" THEN Text(<<>>) ELSE f

\* not x
Falsy(x) ==
    CASE x.tag = "none" -> TRUE
      [] x.tag = "str" -> x.v = <<>>
      [] x.tag = "int" -> PyInt(x.v).val = 0

\* str(x)
PyStr(x) ==
    CASE x.tag = "none" -> <<"N", "o", "n", "e">>
      [] x.tag = "str" -> x.v
      [] x.tag = "int" -> x.v

(***************************************************************************)
(* normalize_clause_number, parse_clause_parts                             *)
(***************************************************************************)
normalize_clause_number(clause_number) ==
    IF Falsy(clause_number) THEN <<>> ELSE RStripDots(PyStr(clause_number))

\* a segment loop that skips the segments int() rejects
RECURSIVE ParseSegmentsSkipBad(_, _)
ParseSegmentsSkipBad(segs, parts) ==
    IF segs = <<>> THEN parts
    ELSE IF PyInt(Head(segs)).ok
         THEN ParseSegmentsSkipBad(Tail(segs), Append(parts, PyInt(Head(segs)).val))
         ELSE ParseSegmentsSkipBad(Tail(segs), parts)

\* the loop of parse_clause_parts over the split segments
RECURSIVE ParseSegments(_, _)
ParseSegments(segs, parts) ==
    IF segs = <<>> THEN parts
    ELSE IF PyInt(Head(segs)).ok
         THEN ParseSegments(Tail(segs), Append(parts, PyInt(Head(segs)).val))
         ELSE <<>>

parse_clause_parts(clause_number) ==
    LET normalized == normalize_clause_number(clause_number)
    IN  IF normalized = <<>> THEN <<>>
        ELSE ParseSegments(SplitDots(normalized, <<>>), <<>>)

(***************************************************************************)
(* is_valid_transition                                                     *)
(***************************************************************************)
Min(a, b) == IF a < b THEN a ELSE b

\* s[:n] (n >= 0): Python slicing clamps n to the length
Prefix(s, n) == SubSeq(s, 1, Min(n, Len(s)))

Last(s) == s[Len(s)]

Valid == [valid |-> TRUE, reason |-> <<>>]
Invalid(reason) == [valid |-> FALSE, reason |-> <<reason>>]

\* SameDepth that accepts every last segment not below prev's, a repeated
\* number included
SameDepthNotBackward(prev, curr) ==
    IF Front(curr) = Front(prev) /\ Last(curr) >= Last(prev)
    THEN Valid
    ELSE Invalid("expected " \o IntStr(Last(prev) + 1) \o " at level "
                 \o IntStr(Len(curr)) \o ", found " \o IntStr(Last(curr)))

\* SameDepth with the comparison of the parent prefixes left out
SameDepthNoPrefix(prev, curr) ==
    IF Last(curr) = Last(prev) + 1
    THEN Valid
    ELSE Invalid("expected " \o IntStr(Last(prev) + 1) \o " at level "
                 \o IntStr(Len(curr)) \o ", found " \o IntStr(Last(curr)))

\* lines 55-60: curr_len == prev_len
SameDepth(prev, curr) ==
    IF Front(curr) = Front(prev) /\ Last(curr) = Last(prev) + 1
    THEN Valid
    ELSE LET expected == Last(prev) + 1
         IN  Invalid("expected " \o IntStr(expected) \o " at level "
                     \o IntStr(Len(curr)) \o ", found " \o IntStr(Last(curr)))

\* OneDeeper with the first-child test done before the parent test
OneDeeperChildFirst(prev, curr) ==
    IF Front(curr) = prev /\ Last(curr) = 1
    THEN Valid
    ELSE IF Last(curr) # 1
         THEN Invalid("child should start at 1, found " \o IntStr(Last(curr)))
         ELSE Invalid("invalid child: expected " \o JoinDots(prev) \o ".1")

\* lines 62-68: curr_len == prev_len + 1
OneDeeper(prev, curr) ==
    IF Front(curr) = prev /\ Last(curr) = 1
    THEN Valid
    ELSE IF Front(curr) = prev
         THEN Invalid("child should start at 1, found " \o IntStr(Last(curr)))
         ELSE Invalid("invalid child: expected " \o JoinDots(prev) \o ".1")

\* SkippedLevels naming the current number's parent instead of prev's first child
SkippedLevelsParent(prev, curr) ==
    Invalid("skipped hierarchy levels, expected " \o JoinDots(Front(curr)))

\* lines 70-72: curr_len > prev_len + 1
SkippedLevels(prev, curr) ==
    LET expected_parent == JoinDots(prev) \o ".1"
    IN  Invalid("skipped hierarchy levels, expected " \o expected_parent)

\* the ancestor scan stopped before level 0, the root level
RECURSIVE AncestorScanSkipRoot(_, _, _)
AncestorScanSkipRoot(prev, curr, level) ==
    IF level < 1 THEN FALSE
    ELSE IF level < Len(curr) - 1 /\ Prefix(curr, level + 1) = Prefix(prev, level + 1)
         THEN AncestorScanSkipRoot(prev, curr, level - 1)
         ELSE LET ancestor == IF level < Len(prev) THEN Prefix(prev, level + 1) ELSE prev
              IN  IF /\ Prefix(curr, level) = Prefix(ancestor, level)
                     /\ curr[level + 1] = ancestor[level + 1] + 1
                  THEN TRUE
                  ELSE AncestorScanSkipRoot(prev, curr, level - 1)

\* lines 75-81: the for loop over level = curr_len - 1 .. 0 (0-based levels);
\* TRUE iff some iteration returns (True, None)
RECURSIVE AncestorScan(_, _, _)
AncestorScan(prev, curr, level) ==
    IF level < 0 THEN FALSE
    ELSE IF level < Len(curr) - 1 /\ Prefix(curr, level + 1) = Prefix(prev, level + 1)
         THEN AncestorScan(prev, curr, level - 1)   \* continue
         ELSE LET ancestor == IF level < Len(prev) THEN Prefix(prev, level + 1) ELSE prev
              IN  IF /\ Prefix(curr, level) = Prefix(ancestor, level)
                     /\ curr[level + 1] = ancestor[level + 1] + 1
                  THEN TRUE
                  ELSE AncestorScan(prev, curr, level - 1)

\* [1] * n
Ones(n) == [k \in 1..n |-> 1]

\* line 82: the root-branch special case
RootRestart(prev, curr) ==
    /\ curr[1] = prev[1] + 1
    /\ (Len(curr) = 1 \/ Tail(curr) = Ones(Len(curr) - 1))

\* Shallower that looks at the deepest level of curr only
ShallowerDeepestOnly(prev, curr) ==
    IF /\ Front(curr) = Prefix(prev, Len(curr) - 1)
       /\ Last(curr) = prev[Len(curr)] + 1
    THEN Valid
    ELSE IF RootRestart(prev, curr) THEN Valid
    ELSE Invalid("invalid return to ancestor level")

\* lines 74-84: curr_len < prev_len
Shallower(prev, curr) ==
    IF AncestorScan(prev, curr, Len(curr) - 1) THEN Valid
    ELSE IF RootRestart(prev, curr) THEN Valid
    ELSE Invalid("invalid return to ancestor level")

is_valid_transition(prev, curr) ==
    IF prev = <<>> \/ curr = <<>> THEN Valid
    ELSE LET prev_len == Len(prev)
             curr_len == Len(curr)
         IN  IF curr_len = prev_len THEN SameDepth(prev, curr)
             ELSE IF curr_len = prev_len + 1 THEN OneDeeper(prev, curr)
             ELSE IF curr_len > prev_len + 1 THEN SkippedLevels(prev, curr)
             ELSE IF curr_len < prev_len THEN Shallower(prev, curr)
             ELSE Valid

(***************************************************************************)
(* Specification of one call of is_valid_transition on parsed numbers.     *)
(***************************************************************************)
\* the sequences over S of length at most n
SeqsUpTo(S, n) == UNION {[1..k -> S] : k \in 0..n}

Segments == 0..MaxSeg
PartsDomain == SeqsUpTo(Segments, MaxDepth)

NoResult == [valid |-> FALSE, reason |-> <<>>]
NoIssues == [continuity_gaps |-> <<>>, empty_titles |-> <<>>, invalid_pages |-> <<>>]

\* the locals of validate_clauses as set at lines 89-97
ScanIdle ==
    /\ clauses = <<>>
    /\ i = 0
    /\ prev_clause_number = PyNone
    /\ prev_parts = <<>>
    /\ prev_index = -1
    /\ issues = NoIssues

\* no parse_clause_parts call, no projection, no concurrent request
OthersIdle ==
    /\ display = <<>>
    /\ p_input = PyNone
    /\ p_normalized = <<>>
    /\ p_result = <<>>
    /\ calls = <<>>

InitTransition ==
    /\ pc = "transition_call"
    /\ t_prev \in PartsDomain
    /\ t_curr \in PartsDomain
    /\ t_result = NoResult
    /\ ScanIdle
    /\ OthersIdle

CallIsValidTransition ==
    /\ pc = "transition_call"
    /\ t_result' = is_valid_transition(t_prev, t_curr)
    /\ pc' = "transition_done"
    /\ UNCHANGED <<clauses, i, prev_clause_number, prev_parts, prev_index, issues,
                   t_prev, t_curr, display, parseVars, calls>>

NextTransition == CallIsValidTransition

SpecTransition == InitTransition /\ [][NextTransition]_vars

(***************************************************************************)
(* validate_clauses                                                        *)
(***************************************************************************)
NoNumber == Text(<<"(", "n", "o", " ", "n", "u", "m", "b", "e", "r", ")">>)

\* the placeholder test made on the normalized number, which is then recorded
OrNoNumberNormalized(clause_number) ==
    IF normalize_clause_number(clause_number) = <<>> THEN NoNumber
    ELSE Text(normalize_clause_number(clause_number))

\* clause_number or "(no number)"
OrNoNumber(clause_number) == IF Falsy(clause_number) THEN NoNumber ELSE clause_number

\* TitleIsEmpty without the strip(): only a falsy title counts
TitleIsEmptyNoStrip(clause_title) == Falsy(clause_title)

\* line 104: not clause_title or not str(clause_title).strip()
TitleIsEmpty(clause_title) ==
    Falsy(clause_title) \/ Strip(PyStr(clause_title)) = <<>>

\* lines 104-108
CheckTitle(idx, clause_number, clause_title) ==
    IF TitleIsEmpty(clause_title)
    THEN <<[index |-> idx, clause_number |-> OrNoNumber(clause_number)]>>
    ELSE <<>>

\* PageStr without the None guard: str(None) is "None"
PageStrNoNoneGuard(clause_page) == Strip(PyStr(clause_page))

\* line 110
PageStr(clause_page) ==
    IF clause_page.tag # "none" THEN Strip(PyStr(clause_page)) ELSE <<>>

\* CheckPage with the float() attempt made for the empty text too
CheckPageNoElse(idx, clause_number, clause_page) ==
    LET page_str == PageStr(clause_page)
        empty == IF page_str = <<>>
                 THEN <<[index |-> idx, clause_number |-> OrNoNumber(clause_number),
                         reason |-> "empty"]>>
                 ELSE <<>>
        bad == IF ~PyFloatOk(page_str)
               THEN <<[index |-> idx, clause_number |-> OrNoNumber(clause_number),
                       reason |-> "non-numeric: '" \o Str(page_str) \o "'"]>>
               ELSE <<>>
    IN  empty \o bad

\* lines 110-125
CheckPage(idx, clause_number, clause_page) ==
    LET page_str == PageStr(clause_page)
    IN  IF page_str = <<>>
        THEN <<[index |-> idx, clause_number |-> OrNoNumber(clause_number),
                reason |-> "empty"]>>
        ELSE IF ~PyFloatOk(page_str)
             THEN <<[index |-> idx, clause_number |-> OrNoNumber(clause_number),
                     reason |-> "non-numeric: '" \o Str(page_str) \o "'"]>>
             ELSE <<>>

\* CheckContinuity that also wants the first parseable number to be "1"
CheckContinuityFromOne(st, idx, clause_number, curr_parts) ==
    IF curr_parts # <<>> /\ st.prev_parts # <<>>
    THEN LET r == is_valid_transition(st.prev_parts, curr_parts)
         IN  IF ~r.valid
             THEN <<[prev_index |-> st.prev_index,
                     curr_index |-> idx,
                     after_clause |-> st.prev_clause_number,
                     before_clause |-> clause_number,
                     reason |-> r.reason]>>
             ELSE <<>>
    ELSE IF curr_parts # <<>> /\ curr_parts # <<1>>
         THEN <<[prev_index |-> st.prev_index,
                 curr_index |-> idx,
                 after_clause |-> st.prev_clause_number,
                 before_clause |-> clause_number,
                 reason |-> <<"numbering should start at 1">>]>>
         ELSE <<>>

\* CheckContinuity reporting the clause just before as the previous one
CheckContinuityPrevIsLast(st, idx, clause_number, curr_parts) ==
    IF curr_parts # <<>> /\ st.prev_parts # <<>>
    THEN LET r == is_valid_transition(st.prev_parts, curr_parts)
         IN  IF ~r.valid
             THEN <<[prev_index |-> idx - 1,
                     curr_index |-> idx,
                     after_clause |-> st.prev_clause_number,
                     before_clause |-> clause_number,
                     reason |-> r.reason]>>
             ELSE <<>>
    ELSE <<>>

\* lines 129-138
CheckContinuity(st, idx, clause_number, curr_parts) ==
    IF curr_parts # <<>> /\ st.prev_parts # <<>>
    THEN LET r == is_valid_transition(st.prev_parts, curr_parts)
         IN  IF ~r.valid
             THEN <<[prev_index |-> st.prev_index,
                     curr_index |-> idx,
                     after_clause |-> st.prev_clause_number,
                     before_clause |-> clause_number,
                     reason |-> r.reason]>>
             ELSE <<>>
    ELSE <<>>

\* LoopBody that inserts each new record at the head of its list
LoopBodyPrepend(st, idx, clause) ==
    LET clause_number == Get(clause.clause_number)
        clause_title == Get(clause.clause_title)
        clause_page == Get(clause.clause_page)
        curr_parts == parse_clause_parts(clause_number)
        parsed == curr_parts # <<>>
    IN  [issues |->
            [empty_titles |-> CheckTitle(idx, clause_number, clause_title)
                                \o st.issues.empty_titles,
             invalid_pages |-> CheckPage(idx, clause_number, clause_page)
                                \o st.issues.invalid_pages,
             continuity_gaps |-> CheckContinuity(st, idx, clause_number, curr_parts)
                                \o st.issues.continuity_gaps],
         prev_parts |-> IF parsed THEN curr_parts ELSE st.prev_parts,
         prev_clause_number |-> IF parsed THEN clause_number ELSE st.prev_clause_number,
         prev_index |-> IF parsed THEN idx ELSE st.prev_index]

\* LoopBody that keeps the previous-clause locals when it has reported a gap
LoopBodyAdvanceOnValid(st, idx, clause) ==
    LET clause_number == Get(clause.clause_number)
        clause_title == Get(clause.clause_title)
        clause_page == Get(clause.clause_page)
        curr_parts == parse_clause_parts(clause_number)
        gap == CheckContinuity(st, idx, clause_number, curr_parts)
        moved == curr_parts # <<>> /\ gap = <<>>
    IN  [issues |->
            [empty_titles |-> st.issues.empty_titles
                                \o CheckTitle(idx, clause_number, clause_title),
             invalid_pages |-> st.issues.invalid_pages
                                \o CheckPage(idx, clause_number, clause_page),
             continuity_gaps |-> st.issues.continuity_gaps \o gap],
         prev_parts |-> IF moved THEN curr_parts ELSE st.prev_parts,
         prev_clause_number |-> IF moved THEN clause_number ELSE st.prev_clause_number,
         prev_index |-> IF moved THEN idx ELSE st.prev_index]

\* LoopBody that moves the previous-clause locals on every clause
LoopBodyAlwaysAdvance(st, idx, clause) ==
    LET clause_number == Get(clause.clause_number)
        clause_title == Get(clause.clause_title)
        clause_page == Get(clause.clause_page)
        curr_parts == parse_clause_parts(clause_number)
    IN  [issues |->
            [empty_titles |-> st.issues.empty_titles
                                \o CheckTitle(idx, clause_number, clause_title),
             invalid_pages |-> st.issues.invalid_pages
                                \o CheckPage(idx, clause_number, clause_page),
             continuity_gaps |-> st.issues.continuity_gaps
                                \o CheckContinuity(st, idx, clause_number, curr_parts)],
         prev_parts |-> curr_parts,
         prev_clause_number |-> clause_number,
         prev_index |-> idx]

\* lines 100-143: one iteration of the loop, on the locals st
LoopBody(st, idx, clause) ==
    LET clause_number == Get(clause.clause_number)
        clause_title == Get(clause.clause_title)
        clause_page == Get(clause.clause_page)
        curr_parts == parse_clause_parts(clause_number)
        parsed == curr_parts # <<>>
    IN  [issues |->
            [empty_titles |-> st.issues.empty_titles
                                \o CheckTitle(idx, clause_number, clause_title),
             invalid_pages |-> st.issues.invalid_pages
                                \o CheckPage(idx, clause_number, clause_page),
             continuity_gaps |-> st.issues.continuity_gaps
                                \o CheckContinuity(st, idx, clause_number, curr_parts)],
         prev_parts |-> IF parsed THEN curr_parts ELSE st.prev_parts,
         prev_clause_number |-> IF parsed THEN clause_number ELSE st.prev_clause_number,
         prev_index |-> IF parsed THEN idx ELSE st.prev_index]

\* lines 89-97
InitialLocals ==
    [issues |-> NoIssues, prev_clause_number |-> PyNone, prev_parts |-> <<>>,
     prev_index |-> -1]

\* the loop over clauses[idx..] (0-based idx) from the locals st
RECURSIVE ScanFrom(_, _, _)
ScanFrom(st, idx, cs) ==
    IF idx >= Len(cs) THEN st
    ELSE ScanFrom(LoopBody(st, idx, cs[idx + 1]), idx + 1, cs)

\* validate_clauses(clauses), the returned report
validate_clauses(cs) == ScanFrom(InitialLocals, 0, cs).issues

(***************************************************************************)
(* Specification of one call of validate_clauses.                          *)
(***************************************************************************)
\* a record with the three validated fields and no clause_path or clause_content
Clause(n, t, p) ==
    [clause_number |-> n, clause_title |-> t, clause_page |-> p,
     clause_path |-> Absent, clause_content |-> Absent]

T1 == Text(<<"1">>)
TX == Text(<<"x">>)

\* clause numbers of the lists that vary the number
ScanNumbers ==
    {T1, Text(<<"2">>), Text(<<"3">>),
     Text(<<"1", ".", "1">>), Text(<<"1", ".", "2">>), Text(<<"2", ".", "1">>),
     Text(<<"1", ".", "1", ".", "1">>), Text(<<"2", ".">>),
     TX, Absent, Num(<<"2">>)}

\* a record whose three fields are null
NullClause == Clause(PyNone, PyNone, PyNone)

ScanClauses == {Clause(n, Text(<<"T">>), T1) : n \in ScanNumbers} \cup {NullClause}

\* the lists that vary every field
FieldNumbers == {T1, Absent}
FieldTitles == {Absent, Text(<<" ">>), Text(<<" ", "T">>), Num(<<"0">>)}
FieldPages == {Absent, Text(<<" ">>), Text(<<" ", "x">>), Text(<<"1", ".", "5">>),
               Num(<<"1", "2">>)}

FieldClauses == {Clause(n, t, p) : n \in FieldNumbers, t \in FieldTitles, p \in FieldPages}

\* the end-to-end scenario: numbers "1", "3"; the second clause has an empty
\* title and the page "x"
EndToEnd ==
    <<Clause(T1, Text(<<"I", "n", "t", "r", "o">>), T1),
      Clause(Text(<<"3">>), Text(<<>>), TX)>>

\* single clauses with further page texts: "nan", "1e2", "1_0", "-1", "1.2.3", "."
PageSamples ==
    {<<"n", "a", "n">>, <<"1", "e", "2">>, <<"1", "_", "0">>, <<"-", "1">>,
     <<"1", ".", "2", ".", "3">>, <<".">>}

PageSampleInputs == {<<Clause(T1, Text(<<"T">>), Text(p))>> : p \in PageSamples}

\* clauses with a blank title and page whose number is not in normal form:
\* "2." followed by "1", the number 0, and "."
NumberSampleInputs ==
    {<<Clause(Text(<<"2", ".">>), Text(<<" ">>), Text(<<" ">>)), Clause(T1, Absent, TX)>>,
     <<Clause(Num(<<"0">>), Text(<<" ">>), Text(<<" ">>))>>,
     <<Clause(Text(<<".">>), Text(<<" ">>), Text(<<" ">>))>>}

\* the numbers "1", "3", "4"
OneThreeFour ==
    <<Clause(T1, Text(<<"T">>), T1), Clause(Text(<<"3">>), Text(<<"T">>), T1),
      Clause(Text(<<"4">>), Text(<<"T">>), T1)>>

Inputs ==
    SeqsUpTo(ScanClauses, MaxClauses) \cup SeqsUpTo(FieldClauses, MaxFieldClauses)
        \cup {EndToEnd, OneThreeFour} \cup PageSampleInputs \cup NumberSampleInputs

Locals ==
    [issues |-> issues, prev_clause_number |-> prev_clause_number,
     prev_parts |-> prev_parts, prev_index |-> prev_index]

Init ==
    /\ pc = "scan"
    /\ clauses \in Inputs
    /\ i = 0
    /\ prev_clause_number = PyNone
    /\ prev_parts = <<>>
    /\ prev_index = -1
    /\ issues = NoIssues
    /\ t_prev = <<>>
    /\ t_curr = <<>>
    /\ t_result = NoResult
    /\ OthersIdle

\* line 99: the for loop has a next element
LoopRuns == pc = "scan" /\ i < Len(clauses)

\* line 99: the for loop is exhausted, control falls through to line 145
LoopExhausted == pc = "scan" /\ i = Len(clauses)

\* Step with a break out of the loop once the iteration has reported a gap
StepBreakOnGap ==
    /\ LoopRuns
    /\ LET st == LoopBody(Locals, i, clauses[i + 1])
       IN  /\ issues' = st.issues
           /\ prev_clause_number' = st.prev_clause_number
           /\ prev_parts' = st.prev_parts
           /\ prev_index' = st.prev_index
           /\ i' = IF Len(st.issues.continuity_gaps) > Len(issues.continuity_gaps)
                   THEN Len(clauses)
                   ELSE i + 1
    /\ UNCHANGED <<pc, clauses, display, transitionVars, parseVars, calls>>

\* one iteration of the for loop at line 99
Step ==
    /\ LoopRuns
    /\ LET st == LoopBody(Locals, i, clauses[i + 1])
       IN  /\ issues' = st.issues
           /\ prev_clause_number' = st.prev_clause_number
           /\ prev_parts' = st.prev_parts
           /\ prev_index' = st.prev_index
    /\ i' = i + 1
    /\ UNCHANGED <<pc, clauses, display, transitionVars, parseVars, calls>>

\* line 145: return issues
Return ==
    /\ LoopExhausted
    /\ pc' = "done"
    /\ UNCHANGED <<clauses, i, prev_clause_number, prev_parts, prev_index, issues,
                   display, transitionVars, parseVars, calls>>

Next == Step \/ Return

Spec == Init /\ [][Next]_vars

(***************************************************************************)
(* extract_display_fields and the /analyze handler.                        *)
(***************************************************************************)
\* a JSON list of texts, and the default [] of clause.get("clause_path", [])
PyList(s) == [tag |-> "list", v |-> s]
GetPath(f) == IF f.tag = "absent" THEN PyList(<<>>) ELSE f

\* the dict built at lines 150-156
DisplayClause(clause) ==
    [clause_number |->
         Text(normalize_clause_number(Text(PyStr(Get(clause.clause_number))))),
     clause_title |-> Get(clause.clause_title),
     clause_page |-> Get(clause.clause_page),
     clause_path |-> GetPath(clause.clause_path),
     clause_content |-> Get(clause.clause_content)]

\* a projection loop that leaves out the clauses without a number
RECURSIVE ProjectFromSkipUnnumbered(_, _)
ProjectFromSkipUnnumbered(result, cs) ==
    IF cs = <<>> THEN result
    ELSE IF Falsy(Get(Head(cs).clause_number))
         THEN ProjectFromSkipUnnumbered(result, Tail(cs))
         ELSE ProjectFromSkipUnnumbered(Append(result, DisplayClause(Head(cs))),
                                        Tail(cs))

\* the loop of lines 149-156 over the remaining clauses cs
RECURSIVE ProjectFrom(_, _)
ProjectFrom(result, cs) ==
    IF cs = <<>> THEN result
    ELSE ProjectFrom(Append(result, DisplayClause(Head(cs))), Tail(cs))

extract_display_fields(cs) == ProjectFrom(<<>>, cs)

\* a record with all five fields: number "1.1.", title " T", page 12
FullClause ==
    [clause_number |-> Text(<<"1", ".", "1", ".">>),
     clause_title |-> Text(<<" ", "T">>),
     clause_page |-> Num(<<"1", "2">>),
     clause_path |-> PyList(<<Text(<<"1">>), Text(<<"1", ".", "1">>)>>),
     clause_content |-> Text(<<"c">>)]

\* a record whose number is the integer 0
ZeroClause == Clause(Num(<<"0">>), Text(<<"T">>), T1)

AnalyzeClauses == ScanClauses \cup {FullClause, ZeroClause}

AnalyzeInputs == SeqsUpTo(AnalyzeClauses, MaxFieldClauses)

InitAnalyze ==
    /\ pc = "analyze"
    /\ clauses \in AnalyzeInputs
    /\ i = 0
    /\ prev_clause_number = PyNone
    /\ prev_parts = <<>>
    /\ prev_index = -1
    /\ issues = NoIssues
    /\ t_prev = <<>>
    /\ t_curr = <<>>
    /\ t_result = NoResult
    /\ OthersIdle

\* line 1384: display_clauses = extract_display_fields(clauses); line 1385
\* then calls validate_clauses
Project ==
    /\ pc = "analyze"
    /\ display' = extract_display_fields(clauses)
    /\ pc' = "scan"
    /\ UNCHANGED <<clauses, i, prev_clause_number, prev_parts, prev_index, issues,
                   transitionVars, parseVars, calls>>

NextAnalyze == Project \/ Step \/ Return

SpecAnalyze == InitAnalyze /\ [][NextAnalyze]_vars

(***************************************************************************)
(* Specification of one call of parse_clause_parts.                        *)
(***************************************************************************)
\* str(n) for an integer n, as text
RECURSIVE IntChars(_)
IntChars(n) ==
    IF n < 0 THEN <<"-">> \o IntChars(0 - n)
    ELSE IF n < 10 THEN <<Digits[n + 1]>>
    ELSE IntChars(n \div 10) \o <<Digits[(n % 10) + 1]>>

\* '.'.join(str(p) for p in parts), as text
RECURSIVE JoinParts(_)
JoinParts(parts) ==
    IF parts = <<>> THEN <<>>
    ELSE IF Len(parts) = 1 THEN IntChars(parts[1])
    ELSE IntChars(parts[1]) \o <<".">> \o JoinParts(Tail(parts))

\* the characters of the clause numbers given to the parser
ParseAlphabet == {"0", "1", ".", "-", " ", "_", "x"}

ParseInputs ==
    {Text(s) : s \in SeqsUpTo(ParseAlphabet, MaxLen)}
        \cup {PyNone, Num(<<"0">>), Num(<<"2">>)}

InitParse ==
    /\ pc = "parse_call"
    /\ p_input \in ParseInputs
    /\ p_normalized = <<>>
    /\ p_result = <<>>
    /\ ScanIdle
    /\ t_prev = <<>>
    /\ t_curr = <<>>
    /\ t_result = NoResult
    /\ display = <<>>
    /\ calls = <<>>

\* lines 24-33
CallParseClauseParts ==
    /\ pc = "parse_call"
    /\ p_normalized' = normalize_clause_number(p_input)
    /\ p_result' = parse_clause_parts(p_input)
    /\ pc' = "parse_done"
    /\ UNCHANGED <<clauses, i, prev_clause_number, prev_parts, prev_index, issues,
                   transitionVars, display, p_input, calls>>

NextParse == CallParseClauseParts

SpecParse == InitParse /\ [][NextParse]_vars

(***************************************************************************)
(* Specification of concurrent /analyze requests.  Each request has its    *)
(* own frame: the argument clauses, the result list of                     *)
(* extract_display_fields and the locals of validate_clauses.  The frames  *)
(* advance one loop iteration at a time, in any order.                     *)
(***************************************************************************)
CallIds == {"a", "b"}

ConcClauses ==
    {Clause(T1, Text(<<"T">>), T1), Clause(Text(<<"3">>), Text(<<"T">>), T1),
     Clause(TX, Text(<<" ">>), TX)}

ConcInputs == SeqsUpTo(ConcClauses, MaxConcClauses)

\* the frame of a request that has just read its clauses (line 1383)
Frame(cs) ==
    [pc |-> "project", clauses |-> cs, display |-> <<>>, i |-> 0,
     issues |-> NoIssues, prev_clause_number |-> PyNone,
     prev_parts |-> <<>>, prev_index |-> -1]

\* locals taken from one frame whichever request is running, as module-level
\* state would be
LocalsOfShared(c) ==
    LET d == CHOOSE d \in CallIds : TRUE
    IN  [issues |-> calls[d].issues,
         prev_clause_number |-> calls[d].prev_clause_number,
         prev_parts |-> calls[d].prev_parts, prev_index |-> calls[d].prev_index]

\* lines 89-97: the locals of the validate_clauses call of request c
LocalsOf(c) ==
    [issues |-> calls[c].issues,
     prev_clause_number |-> calls[c].prev_clause_number,
     prev_parts |-> calls[c].prev_parts, prev_index |-> calls[c].prev_index]

InitConcurrent ==
    /\ pc = "serving"
    /\ calls \in [CallIds -> {Frame(cs) : cs \in ConcInputs}]
    /\ ScanIdle
    /\ t_prev = <<>>
    /\ t_curr = <<>>
    /\ t_result = NoResult
    /\ display = <<>>
    /\ p_input = PyNone
    /\ p_normalized = <<>>
    /\ p_result = <<>>

OnlyCalls ==
    UNCHANGED <<pc, clauses, i, prev_clause_number, prev_parts, prev_index, issues,
                transitionVars, display, parseVars>>

\* one iteration of the loop of lines 149-156 in request c
ProjectStepOf(c) ==
    /\ calls[c].pc = "project"
    /\ Len(calls[c].display) < Len(calls[c].clauses)
    /\ calls' = [calls EXCEPT ![c].display =
                    Append(@, DisplayClause(calls[c].clauses[Len(@) + 1]))]
    /\ OnlyCalls

\* line 157 and line 1385: the projection returns, validate_clauses is called
ProjectReturnOf(c) ==
    /\ calls[c].pc = "project"
    /\ Len(calls[c].display) = Len(calls[c].clauses)
    /\ calls' = [calls EXCEPT ![c].pc = "scan"]
    /\ OnlyCalls

\* one iteration of the loop of line 99 in request c
StepOf(c) ==
    /\ calls[c].pc = "scan"
    /\ calls[c].i < Len(calls[c].clauses)
    /\ LET st == LoopBody(LocalsOf(c), calls[c].i, calls[c].clauses[calls[c].i + 1])
       IN  calls' = [calls EXCEPT ![c].issues = st.issues,
                                  ![c].prev_clause_number = st.prev_clause_number,
                                  ![c].prev_parts = st.prev_parts,
                                  ![c].prev_index = st.prev_index,
                                  ![c].i = @ + 1]
    /\ OnlyCalls

\* line 145 in request c
ReturnOf(c) ==
    /\ calls[c].pc = "scan"
    /\ calls[c].i = Len(calls[c].clauses)
    /\ calls' = [calls EXCEPT ![c].pc = "done"]
    /\ OnlyCalls

NextConcurrent ==
    \E c \in CallIds :
        ProjectStepOf(c) \/ ProjectReturnOf(c) \/ StepOf(c) \/ ReturnOf(c)

SpecConcurrent == InitConcurrent /\ [][NextConcurrent]_vars

(***************************************************************************)
(* Claims about is_valid_transition, under SpecTransition.                 *)
(***************************************************************************)
Returned == pc = "transition_done"

\* C3: same depth (both non-empty, equal lengths): valid iff the parent
\* prefixes are equal and the last segment is prev's last plus 1; every
\* invalid case, a prefix mismatch included, has the reason
\* "expected <prev[-1]+1> at level <len(curr)>, found <curr[-1]>".
C3_SameDepth ==
    /\ (Returned /\ t_prev # <<>> /\ Len(t_curr) = Len(t_prev)) =>
          LET ok == /\ Front(t_curr) = Front(t_prev)
                    /\ Last(t_curr) = Last(t_prev) + 1
          IN  IF ok THEN t_result = [valid |-> TRUE, reason |-> <<>>]
              ELSE t_result =
                     [valid |-> FALSE,
                      reason |-> <<"expected " \o IntStr(Last(t_prev) + 1)
                                   \o " at level " \o IntStr(Len(t_curr))
                                   \o ", found " \o IntStr(Last(t_curr))>>]
    /\ (Returned /\ t_prev = <<1>> /\ t_curr = <<3>>) =>
          t_result = [valid |-> FALSE, reason |-> <<"expected 2 at level 1, found 3">>]
    /\ (Returned /\ t_prev = <<1, 2>> /\ t_curr = <<2, 3>>) =>
          t_result = [valid |-> FALSE, reason |-> <<"expected 3 at level 2, found 3">>]

C3_Witness ==
    /\ Returned
    /\ t_prev = <<1, 2>>
    /\ t_curr = <<2, 3>>
    /\ ~t_result.valid

\* C4: one level deeper: valid iff curr[:-1] = prev and curr[-1] = 1; with the
\* prefix equal and curr[-1] # 1 the reason is "child should start at 1,
\* found <curr[-1]>"; with the prefix different it is
\* "invalid child: expected <prev joined by '.'>.1".
C4_OneDeeper ==
    /\ (Returned /\ t_prev # <<>> /\ Len(t_curr) = Len(t_prev) + 1) =>
          IF Front(t_curr) = t_prev
          THEN IF Last(t_curr) = 1
               THEN t_result = [valid |-> TRUE, reason |-> <<>>]
               ELSE t_result =
                      [valid |-> FALSE,
                       reason |-> <<"child should start at 1, found "
                                    \o IntStr(Last(t_curr))>>]
          ELSE t_result =
                 [valid |-> FALSE,
                  reason |-> <<"invalid child: expected " \o JoinDots(t_prev)
                               \o ".1">>]
    /\ (Returned /\ t_prev = <<3>> /\ t_curr = <<3, 2>>) =>
          t_result = [valid |-> FALSE, reason |-> <<"child should start at 1, found 2">>]
    /\ (Returned /\ t_prev = <<1, 2>> /\ t_curr = <<1, 3, 1>>) =>
          t_result = [valid |-> FALSE, reason |-> <<"invalid child: expected 1.2.1">>]

C4_Witness ==
    /\ Returned
    /\ t_prev = <<1, 2>>
    /\ t_curr = <<1, 3, 1>>
    /\ t_result.reason = <<"invalid child: expected 1.2.1">>

\* C5: a descent of more than one level is invalid whatever the segments,
\* with the reason "skipped hierarchy levels, expected <prev joined by '.'>.1".
C5_SkippedLevels ==
    /\ (Returned /\ t_prev # <<>> /\ Len(t_curr) > Len(t_prev) + 1) =>
          t_result =
            [valid |-> FALSE,
             reason |-> <<"skipped hierarchy levels, expected "
                          \o JoinDots(t_prev) \o ".1">>]
    /\ (Returned /\ t_prev = <<3>> /\ t_curr = <<3, 1, 1>>) =>
          t_result = [valid |-> FALSE,
                      reason |-> <<"skipped hierarchy levels, expected 3.1">>]

C5_Witness ==
    /\ Returned
    /\ t_prev = <<3>>
    /\ t_curr = <<3, 1, 1>>
    /\ t_result.reason = <<"skipped hierarchy levels, expected 3.1">>

\* the statement of C6: an ancestor level L (0-based) at which curr continues
AncestorLevelExists(prev, curr) ==
    \E L \in 0..(Len(curr) - 1) :
        /\ \A k \in 1..L : curr[k] = prev[k]
        /\ curr[L + 1] = prev[L + 1] + 1

\* the statement of C6: curr[0] = prev[0] + 1 and every other segment is 1
RootRestartShape(prev, curr) ==
    /\ curr[1] = prev[1] + 1
    /\ \A k \in 2..Len(curr) : curr[k] = 1

\* C6: shallower (len(curr) < len(prev), curr non-empty): valid iff some level
\* L in 0..len(curr)-1 has curr[0..L-1] = prev[0..L-1] and curr[L] = prev[L]+1,
\* or curr is a root restart; otherwise invalid with the reason
\* "invalid return to ancestor level".  [6,1,2] -> [6,2] and [6,1,2] -> [7]
\* are valid (here with 2 and 3 for 6 and 7).
C6_Shallower ==
    /\ (Returned /\ t_curr # <<>> /\ Len(t_curr) < Len(t_prev)) =>
          IF AncestorLevelExists(t_prev, t_curr) \/ RootRestartShape(t_prev, t_curr)
          THEN t_result = [valid |-> TRUE, reason |-> <<>>]
          ELSE t_result = [valid |-> FALSE,
                           reason |-> <<"invalid return to ancestor level">>]
    /\ (Returned /\ t_prev = <<2, 1, 2>> /\ t_curr \in {<<2, 2>>, <<3>>}) =>
          t_result.valid
    /\ (Returned /\ t_prev = <<2, 1, 2>> /\ t_curr \in {<<2, 3>>, <<1>>, <<2>>}) =>
          t_result = [valid |-> FALSE,
                      reason |-> <<"invalid return to ancestor level">>]

C6_Witness ==
    /\ Returned
    /\ t_prev = <<1, 1, 1>>
    /\ t_curr = <<2, 0>>
    /\ t_result.valid

\* the statement of C7: the four gap-free tree moves
GapFreeMove(prev, curr) ==
    \/ /\ Len(curr) = Len(prev)
       /\ Front(curr) = Front(prev)
       /\ Last(curr) = Last(prev) + 1
    \/ curr = Append(prev, 1)
    \/ /\ Len(curr) < Len(prev)
       /\ Front(curr) = SubSeq(prev, 1, Len(curr) - 1)
       /\ Last(curr) = prev[Len(curr)] + 1
    \/ /\ curr[1] = prev[1] + 1
       /\ \A k \in 2..Len(curr) : curr[k] = 1

\* C7: every transition is_valid_transition accepts, for non-empty prev and
\* curr, is a sibling increment, a first child, a proper prefix of prev with
\* its last segment incremented, or a root restart.
C7_OnlyGapFreeMoves ==
    (Returned /\ t_prev # <<>> /\ t_curr # <<>> /\ t_result.valid) =>
        GapFreeMove(t_prev, t_curr)

(***************************************************************************)
(* Claims about validate_clauses, under Spec.                              *)
(***************************************************************************)
Done == pc = "done"

\* the clause at 0-based index k, its number as read and as parsed
NumberAt(k) == Get(clauses[k + 1].clause_number)
PartsAt(k) == parse_clause_parts(NumberAt(k))
Parseable(k) == PartsAt(k) # <<>>

HasEarlierParseable(k) == \E j \in 0..(k - 1) : Parseable(j)

NearestParseable(k) ==
    CHOOSE j \in 0..(k - 1) : Parseable(j) /\ \A m \in (j + 1)..(k - 1) : ~Parseable(m)

GapExpected(k) ==
    /\ Parseable(k)
    /\ HasEarlierParseable(k)
    /\ ~is_valid_transition(PartsAt(NearestParseable(k)), PartsAt(k)).valid

Gaps == issues.continuity_gaps

\* C1: in the returned report, a gap with curr_index = k is reported exactly
\* when clause k parses, an earlier clause parses, and the transition from the
\* nearest earlier parseable clause j to k is invalid; that gap has
\* prev_index = j and is_valid_transition's reason; there are no other gap
\* records.  The end-to-end scenario gives the one gap 0 -> 1 with
\* "expected 2 at level 1, found 3".
C1_GapsExactlyInvalidTransitions ==
    /\ Done =>
          \A k \in 0..(Len(clauses) - 1) :
              GapExpected(k) <=> \E g \in 1..Len(Gaps) : Gaps[g].curr_index = k
    /\ Done =>
          \A g \in 1..Len(Gaps) :
              LET k == Gaps[g].curr_index
              IN  /\ k \in 0..(Len(clauses) - 1)
                  /\ GapExpected(k)
                  /\ Gaps[g].prev_index = NearestParseable(k)
                  /\ Gaps[g].reason =
                       is_valid_transition(PartsAt(NearestParseable(k)),
                                           PartsAt(k)).reason
    /\ (Done /\ clauses = EndToEnd) =>
          /\ Len(Gaps) = 1
          /\ Gaps[1].prev_index = 0
          /\ Gaps[1].curr_index = 1
          /\ Gaps[1].reason = <<"expected 2 at level 1, found 3">>

\* "1", an unparseable number, "3": the gap is between indices 0 and 2
C1_Witness ==
    /\ Done
    /\ Len(clauses) = 3
    /\ NumberAt(0) = T1
    /\ NumberAt(1) = TX
    /\ NumberAt(2) = Text(<<"3">>)
    /\ Len(Gaps) = 1
    /\ Gaps[1].prev_index = 0
    /\ Gaps[1].curr_index = 2

HasParseableNumber(clause) == parse_clause_parts(Get(clause.clause_number)) # <<>>

GapTriples(gaps) ==
    [g \in 1..Len(gaps) |->
        <<gaps[g].after_clause, gaps[g].before_clause, gaps[g].reason>>]

\* C2: no gap record has a clause with an unparseable number as prev_index or
\* curr_index, and the (after_clause, before_clause, reason) triples are those
\* of the same list with the unparseable-number clauses removed; "1", "x", "2"
\* yields no gap.
C2_UnparseableInvisible ==
    /\ \A g \in 1..Len(Gaps) :
          /\ Gaps[g].prev_index \in 0..(i - 1)
          /\ Parseable(Gaps[g].prev_index)
          /\ Gaps[g].curr_index \in 0..(i - 1)
          /\ Parseable(Gaps[g].curr_index)
    /\ Done =>
          GapTriples(Gaps) =
            GapTriples(validate_clauses(SelectSeq(clauses, HasParseableNumber))
                         .continuity_gaps)
    /\ (Done /\ Len(clauses) = 3 /\ NumberAt(0) = T1 /\ NumberAt(1) = TX
          /\ NumberAt(2) = Text(<<"2">>)) => Gaps = <<>>

\* "1", no number, "1.2": the one gap of "1", "1.2"
C2_Witness ==
    /\ Done
    /\ Len(clauses) = 3
    /\ NumberAt(0) = T1
    /\ clauses[2].clause_number = Absent
    /\ NumberAt(2) = Text(<<"1", ".", "2">>)
    /\ GapTriples(Gaps) =
          <<<<T1, Text(<<"1", ".", "2">>), <<"child should start at 1, found 2">>>>>>

\* the issues of a list that carry the index k
WithIndex(list, k) == SelectSeq(list, LAMBDA r : r.index = k)

\* the statement of C8: a title that is absent, empty or whitespace-only, as
\* opposed to one that, as text, contains a non-whitespace character
TitleBlank(title) ==
    \/ title.tag \in {"absent", "none"}
    \/ \A c \in 1..Len(PyStr(title)) : IsSpace(PyStr(title)[c])

\* C8: every clause k has exactly one EmptyTitleIssue if its title is absent,
\* empty or whitespace-only, and none if the title contains a non-whitespace
\* character, whatever its number and the other clauses.
C8_EmptyTitleIffBlank ==
    Done =>
        \A k \in 0..(Len(clauses) - 1) :
            Len(WithIndex(issues.empty_titles, k)) =
                IF TitleBlank(clauses[k + 1].clause_title) THEN 1 ELSE 0

\* the statement of C9: the page coerced to text and trimmed, absent and null
\* being empty
PageText(page) ==
    IF page.tag \in {"absent", "none"} THEN <<>> ELSE Strip(PyStr(page))

PageReasons(k) ==
    LET found == WithIndex(issues.invalid_pages, k)
    IN  [r \in 1..Len(found) |-> found[r].reason]

C10_AtMostOncePerIndex ==
    /\ \A a, b \in 1..Len(issues.empty_titles) :
          issues.empty_titles[a].index = issues.empty_titles[b].index => a = b
    /\ \A a, b \in 1..Len(issues.invalid_pages) :
          issues.invalid_pages[a].index = issues.invalid_pages[b].index => a = b
    /\ \A a, b \in 1..Len(Gaps) :
          Gaps[a].curr_index = Gaps[b].curr_index => a = b

\* a clause with an issue of each kind
C10_Witness ==
    /\ Done
    /\ clauses = EndToEnd
    /\ Len(issues.empty_titles) = 1
    /\ Len(issues.invalid_pages) = 1
    /\ Len(Gaps) = 1

\* the statement of C11: the malformed fields of the clause at index k
TitleMissing(k) == TitleBlank(clauses[k + 1].clause_title)

PageMalformed(k) ==
    LET text == PageText(clauses[k + 1].clause_page)
    IN  text = <<>> \/ ~PyFloatOk(text)

HasTitleIssue(k) == WithIndex(issues.empty_titles, k) # <<>>
HasPageIssue(k) == WithIndex(issues.invalid_pages, k) # <<>>
InGap(k) == \E g \in 1..Len(Gaps) : Gaps[g].prev_index = k \/ Gaps[g].curr_index = k

IssueRefersTo(k) == HasTitleIssue(k) \/ HasPageIssue(k) \/ InGap(k)

TitleProper(k) ==
    /\ clauses[k + 1].clause_title.tag = "str"
    /\ ~TitleMissing(k)

ChecksDone(j) ==
    /\ TitleIsEmpty(Get(clauses[j + 1].clause_title)) <=> HasTitleIssue(j)
    /\ (PageStr(Get(clauses[j + 1].clause_page)) = <<>>
          \/ ~PyFloatOk(PageStr(Get(clauses[j + 1].clause_page)))) <=> HasPageIssue(j)
    /\ GapExpected(j) <=> \E g \in 1..Len(Gaps) : Gaps[g].curr_index = j

\* records are only appended, and those appended carry the index idx
AppendsAt(old, new, idx, Index(_)) ==
    /\ Len(new) >= Len(old)
    /\ SubSeq(new, 1, Len(old)) = old
    /\ \A r \in (Len(old) + 1)..Len(new) : Index(new[r]) = idx

IndexOf(r) == r.index
CurrIndexOf(r) == r.curr_index

\* C12: the call terminates: until it has returned, the loop has a next
\* element or the return statement is reached, and every iteration brings i
\* one closer to len(clauses), which it never exceeds.  Each iteration
\* handles the next index, one after the other from 0 to n-1, and appends
\* records of that index only; the returned report has the three lists, and
\* the title, page and numbering checks of every clause are in it whatever
\* was found at earlier clauses.
C12_CompleteScanTerminates ==
    /\ [](Done \/ LoopRuns \/ LoopExhausted)
    /\ [](i \in 0..Len(clauses))
    /\ [][/\ clauses' = clauses
          /\ \/ /\ pc = "scan" /\ pc' = "scan"
                /\ i < Len(clauses)
                /\ i' = i + 1
                /\ AppendsAt(issues.empty_titles, issues'.empty_titles, i, IndexOf)
                /\ AppendsAt(issues.invalid_pages, issues'.invalid_pages, i, IndexOf)
                /\ AppendsAt(Gaps, issues'.continuity_gaps, i, CurrIndexOf)
             \/ /\ pc = "scan" /\ pc' = "done"
                /\ i = Len(clauses)
                /\ i' = i
                /\ issues' = issues]_vars
    /\ [](Done =>
            /\ i = Len(clauses)
            /\ DOMAIN issues = {"continuity_gaps", "empty_titles", "invalid_pages"}
            /\ \A j \in 0..(Len(clauses) - 1) : ChecksDone(j))

\* a gap at index 1, and the null clause after it still gets its title and
\* page issues
C12_Witness ==
    /\ Done
    /\ Len(clauses) = 3
    /\ clauses[3] = NullClause
    /\ Len(Gaps) = 1
    /\ Gaps[1].curr_index = 1
    /\ HasTitleIssue(2)
    /\ HasPageIssue(2)

\* C20: the index values of empty_titles and of invalid_pages are strictly
\* increasing; the curr_index values of continuity_gaps are strictly
\* increasing, and every gap has 0 <= prev_index < curr_index < len(clauses).
C20_DocumentOrder ==
    /\ \A a, b \in 1..Len(issues.empty_titles) :
          a < b => issues.empty_titles[a].index < issues.empty_titles[b].index
    /\ \A a, b \in 1..Len(issues.invalid_pages) :
          a < b => issues.invalid_pages[a].index < issues.invalid_pages[b].index
    /\ \A a, b \in 1..Len(Gaps) : a < b => Gaps[a].curr_index < Gaps[b].curr_index
    /\ \A g \in 1..Len(Gaps) :
          /\ 0 <= Gaps[g].prev_index
          /\ Gaps[g].prev_index < Gaps[g].curr_index
          /\ Gaps[g].curr_index < Len(clauses)

\* two gaps, at indices 1 and 2
C20_Witness ==
    /\ Done
    /\ Len(clauses) = 3
    /\ Len(Gaps) = 2
    /\ Gaps[1].curr_index = 1
    /\ Gaps[2].prev_index = 1
    /\ Gaps[2].curr_index = 2

(***************************************************************************)
(* Claims about extract_display_fields, under SpecAnalyze.                 *)
(***************************************************************************)
Projected == pc \in {"scan", "done"}

\* C13: the projection has one display clause per input clause, in the same
\* order, the k-th made from the k-th input clause alone; the validation
\* that follows it changes neither the projection nor the input, whatever it
\* finds.
C13_OneDisplayClausePerClause ==
    /\ [](Projected =>
            /\ Len(display) = Len(clauses)
            /\ \A k \in 1..Len(clauses) : display[k] = DisplayClause(clauses[k]))
    /\ [][Projected => (display' = display /\ clauses' = clauses)]_vars

\* the validation found a gap after the clause "1.1.", which is projected
\* with its path and content
C13_Witness ==
    /\ Done
    /\ Len(clauses) = 2
    /\ clauses[1] = FullClause
    /\ Len(Gaps) = 1
    /\ Len(display) = 2
    /\ display[1].clause_number = Text(<<"1", ".", "1">>)
    /\ display[1].clause_path = FullClause.clause_path
    /\ display[2].clause_path = PyList(<<>>)

\* C14: the projected clause_number of every record is the text that
\* parse_clause_parts splits for that record, normalize_clause_number of the
\* value read with clause.get("clause_number", ""); a number the parser
\* takes as missing is projected as the empty text.
C14_ProjectedNumberIsParserNormalization ==
    Projected =>
        \A k \in 1..Len(clauses) :
            display[k].clause_number =
                Text(normalize_clause_number(Get(clauses[k].clause_number)))

(***************************************************************************)
(* Claims about parse_clause_parts, under SpecParse.                       *)
(***************************************************************************)
ParseReturned == pc = "parse_done"

\* C15: parse_clause_parts returns either the empty sequence or one integer
\* per dot-separated segment of the normalized text, each the value of its
\* segment; when the normalized text is empty or any segment, an empty one
\* included, is not an integer, the result is the empty sequence.
C15_AllOrNothing ==
    ParseReturned =>
        LET segs == SplitDots(p_normalized, <<>>)
            allInts == /\ p_normalized # <<>>
                       /\ \A k \in 1..Len(segs) : PyInt(segs[k]).ok
        IN  IF allInts
            THEN /\ Len(p_result) = Len(segs)
                 /\ \A k \in 1..Len(segs) : p_result[k] = PyInt(segs[k]).val
            ELSE p_result = <<>>

\* "1..1" has an empty segment between two integers
C15_Witness ==
    /\ ParseReturned
    /\ p_input = Text(<<"1", ".", ".", "1">>)
    /\ p_normalized = p_input.v
    /\ p_result = <<>>

\* a non-empty text of decimal digits only
PlainNumeral(s) == s # <<>> /\ \A k \in 1..Len(s) : IsDigit(s[k])

\* C16: every segment of a returned sequence is a non-negative integer, and
\* a clause number with a segment that is not a non-negative base-10
\* numeral, a signed one included, yields the empty sequence.
C16_SegmentsNonNegative ==
    ParseReturned =>
        /\ \A k \in 1..Len(p_result) : p_result[k] >= 0
        /\ p_result # <<>> =>
              LET segs == SplitDots(p_normalized, <<>>)
              IN  \A k \in 1..Len(segs) : PlainNumeral(segs[k])

\* C17: parsing the returned segments written in base 10 and joined by "."
\* gives the same segments again, and normalizing the normalized text gives
\* the same text again.
C17_RoundTrip ==
    ParseReturned =>
        /\ parse_clause_parts(Text(JoinParts(p_result))) = p_result
        /\ normalize_clause_number(Text(p_normalized)) = p_normalized

\* "01.." is normalized to "01" and parsed to [1], which is written "1"
C17_Witness ==
    /\ ParseReturned
    /\ p_input = Text(<<"0", "1", ".", ".">>)
    /\ p_normalized = <<"0", "1">>
    /\ p_result = <<1>>
    /\ JoinParts(p_result) = <<"1">>

Dots(k) == [j \in 1..k |-> "."]

\* C18: a text followed by any number of "." characters parses as the text
\* itself; the normalized text never ends in "."; and the text is its
\* normalized text followed by dots only, so that leading and interior dots
\* are kept.
C18_TrailingDotsIgnored ==
    ParseReturned =>
        /\ p_normalized = <<>> \/ Last(p_normalized) # "."
        /\ p_input.tag = "str" =>
              /\ \A k \in 0..MaxDots :
                    parse_clause_parts(Text(p_input.v \o Dots(k))) = p_result
              /\ \E k \in 0..Len(p_input.v) : p_input.v = p_normalized \o Dots(k)

\* "1.1." keeps its interior dot and loses the trailing one
C18_Witness ==
    /\ ParseReturned
    /\ p_input = Text(<<"1", ".", "1", ".">>)
    /\ p_normalized = <<"1", ".", "1">>
    /\ p_result = <<1, 1>>

(***************************************************************************)
(* Claims about concurrent requests, under SpecConcurrent.                 *)
(***************************************************************************)
\* C19: however the iterations of concurrent requests interleave, a request
\* that has returned has the report and the projection that
\* validate_clauses and extract_display_fields give for its clauses when
\* run alone; a step of one request changes the frame of no other request,
\* and no step changes the clauses of any request.
C19_CallsIndependent ==
    /\ [](\A c \in DOMAIN calls :
            calls[c].pc = "done" =>
                /\ calls[c].issues = validate_clauses(calls[c].clauses)
                /\ calls[c].display = extract_display_fields(calls[c].clauses))
    /\ [][\A c \in DOMAIN calls :
            /\ calls'[c].clauses = calls[c].clauses
            /\ calls'[c] # calls[c] =>
                  \A d \in DOMAIN calls \ {c} : calls'[d] = calls[d]]_vars

\* request a has returned a report with a gap while request b, with other
\* clauses, is in the middle of its scan
C19_Witness ==
    /\ DOMAIN calls = CallIds
    /\ calls["a"].pc = "done"
    /\ Len(calls["a"].issues.continuity_gaps) = 1
    /\ calls["b"].pc = "scan"
    /\ calls["b"].i = 1
    /\ Len(calls["b"].clauses) = 2
    /\ calls["b"].clauses # calls["a"].clauses
    /\ calls["b"].issues.empty_titles # <<>>

(***************************************************************************)
(* Further claims about the report and the locals of validate_clauses,     *)
(* under Spec.                                                             *)
(***************************************************************************)
\* a number that is absent, null, the empty text or the number 0, which the
\* scan reads as no number
NumberMissing(n) ==
    \/ n.tag = "none"
    \/ n.tag = "str" /\ n.v = <<>>
    \/ n.tag = "int" /\ \A k \in 1..Len(n.v) : n.v[k] = "0"

\* the clause_number field of a title or page record of the clause at index k
RecordedNumber(k) == IF NumberMissing(NumberAt(k)) THEN NoNumber ELSE NumberAt(k)

C22_PrevIsLastParseable ==
    /\ pc \in {"scan", "done"} =>
          LET processed == {j \in 0..(i - 1) : Parseable(j)}
          IN  IF processed # {}
              THEN /\ prev_index \in processed
                   /\ \A j \in processed : j <= prev_index
                   /\ prev_parts = PartsAt(prev_index)
                   /\ prev_clause_number = NumberAt(prev_index)
              ELSE /\ prev_index = -1
                   /\ prev_parts = <<>>
                   /\ prev_clause_number = PyNone
    /\ (Done /\ clauses = OneThreeFour) =>
          /\ Len(Gaps) = 1
          /\ Gaps[1].prev_index = 0
          /\ Gaps[1].curr_index = 1

\* "1", "3", "4" scanned: "4" has replaced "3", which had replaced "1" although
\* it was reported as a gap
C22_Witness ==
    /\ Done
    /\ clauses = OneThreeFour
    /\ Len(Gaps) = 1
    /\ prev_index = 2
    /\ prev_parts = <<4>>
    /\ prev_clause_number = Text(<<"4">>)

(***************************************************************************)
(* Further claims about is_valid_transition, under SpecTransition.         *)
(***************************************************************************)
IsShallower(prev, curr) == prev # <<>> /\ curr # <<>> /\ Len(curr) < Len(prev)

\* is_valid_transition with the root-restart test of lines 82-83 taken out
WithoutRootRestart(prev, curr) ==
    IF IsShallower(prev, curr)
    THEN IF AncestorScan(prev, curr, Len(curr) - 1)
         THEN [valid |-> TRUE, reason |-> <<>>]
         ELSE [valid |-> FALSE, reason |-> <<"invalid return to ancestor level">>]
    ELSE is_valid_transition(prev, curr)

\* C23: whenever curr is shallower than prev and passes the root-restart
\* test (curr[0] = prev[0] + 1, every other segment 1), the ancestor scan
\* has already accepted it; so is_valid_transition returns what it would
\* return without the root-restart test.
C23_RootRestartNeverDecides ==
    Returned =>
        /\ (IsShallower(t_prev, t_curr) /\ RootRestart(t_prev, t_curr)) =>
              AncestorScan(t_prev, t_curr, Len(t_curr) - 1)
        /\ t_result = WithoutRootRestart(t_prev, t_curr)

\* 1.2.3 followed by 2.1 passes the root-restart test and is accepted
C23_Witness ==
    /\ Returned
    /\ t_prev = <<1, 2, 3>>
    /\ t_curr = <<2, 1>>
    /\ RootRestart(t_prev, t_curr)
    /\ t_result = [valid |-> TRUE, reason |-> <<>>]

\* a is before b in lexicographic order, a proper prefix being before its
\* extensions
RECURSIVE LexLess(_, _)
LexLess(a, b) ==
    IF b = <<>> THEN FALSE
    ELSE IF a = <<>> THEN TRUE
    ELSE IF Head(a) # Head(b) THEN Head(a) < Head(b)
    ELSE LexLess(Tail(a), Tail(b))

\* the gaps validate_clauses reports for a clause numbered prev followed by
\* a clause numbered curr
GapsOfPair(prev, curr) ==
    validate_clauses(<<Clause(Text(JoinParts(prev)), Text(<<"T">>), T1),
                       Clause(Text(JoinParts(curr)), Text(<<"T">>), T1)>>).continuity_gaps

\* C24: a valid transition between non-empty prev and curr has curr after
\* prev in lexicographic order; a curr equal to prev or before it is
\* invalid, and validate_clauses reports it as a gap; two clauses scanned
\* without a gap have increasing numbers.
C24_ValidMovesForward ==
    (Returned /\ t_prev # <<>> /\ t_curr # <<>>) =>
        LET forward == LexLess(t_prev, t_curr)
            gaps == GapsOfPair(t_prev, t_curr)
        IN  /\ t_result.valid => forward
            /\ ~forward => (~t_result.valid /\ Len(gaps) = 1)
            /\ forward \/ gaps # <<>>

\* 1.2 repeated: invalid, and reported as a gap
C24_Witness ==
    /\ Returned
    /\ t_prev = <<1, 2>>
    /\ t_curr = <<1, 2>>
    /\ ~t_result.valid
    /\ Len(GapsOfPair(t_prev, t_curr)) = 1

(***************************************************************************)
(* A further claim about the report of validate_clauses, under Spec.       *)
(***************************************************************************)
ParseableIndices == {k \in 0..(Len(clauses) - 1) : Parseable(k)}

\* C25: the first clause whose number parses is the curr_index of no gap,
\* whatever its number; a list with at most one parseable clause (the empty
\* list, a single clause of any number and depth, a list of unparseable
\* clauses) has no gaps; and when some clause parses there are fewer gaps
\* than parseable clauses.
C25_FirstParseableNeverFlagged ==
    Done =>
        /\ \A k \in ParseableIndices :
              ~HasEarlierParseable(k) => \A g \in 1..Len(Gaps) : Gaps[g].curr_index # k
        /\ Cardinality(ParseableIndices) <= 1 => Gaps = <<>>
        /\ ParseableIndices # {} => Len(Gaps) <= Cardinality(ParseableIndices) - 1

\* an unparseable clause, then "1.1.1" as the first parseable clause, then
\* "3", the only gap
C25_Witness ==
    /\ Done
    /\ Len(clauses) = 3
    /\ ~Parseable(0)
    /\ PartsAt(1) = <<1, 1, 1>>
    /\ PartsAt(2) = <<3>>
    /\ Len(Gaps) = 1
    /\ Gaps[1].prev_index = 1
    /\ Gaps[1].curr_index = 2

=============================================================================
